---- MODULE Spec2Model ----
(***************************************************************************)
(* A model of blockify/spotifydbus.py: the SpotifyDBus wrapper around a    *)
(* player's MPRIS interface on the session bus, and the command-line entry *)
(* point that constructs one wrapper and dispatches one command.           *)
(*                                                                         *)
(* The session bus and the player are the environment.  Every remote call  *)
(* the wrapper makes is recorded in `calls`, and the answer the bus gives  *)
(* to it (a value, or a DBusException) is an input of the action, drawn    *)
(* from a small set and kept in `inp`.  A Python exception that leaves a   *)
(* method is recorded in `exc`; values are tagged records, so that None, a *)
(* boolean, an integer, a string and a dictionary are told apart.          *)
(***************************************************************************)
EXTENDS Integers, Sequences, FiniteSets, TLC

VARIABLES
    names,          \* bus.list_names(): the registered bus names, in bus order
    spotify_path,   \* self.spotify_path
    proxy,          \* self.proxy
    attrs,          \* which of self.properties / self.player were ever assigned
    pc,             \* position of the caller / of the script
    args,           \* docopt's parsed command (script only)
    op,             \* the method or command that ran last
    inp,            \* the answers of the bus to that run's remote calls
    calls,          \* remote calls made by that run, in order
    logs,           \* records handed to the logger by that run, in order
    out,            \* lines printed to stdout by that run
    ret,            \* the value the method returned
    exc,            \* the exception that left the method ("" when none)
    exit_code       \* the script's exit status (-1 while it runs)

vars == <<names, spotify_path, proxy, attrs, pc, args, op, inp, calls, logs,
          out, ret, exc, exit_code>>

-----------------------------------------------------------------------------
(* Bounds of the model.                                                    *)

MaxNames == 2

-----------------------------------------------------------------------------
(* Python values and exceptions.                                           *)

PyNone == [tag |-> "None", val |-> ""]
PyBool(b) == [tag |-> "bool", val |-> b]
PyInt(n) == [tag |-> "int", val |-> n]
PyStr(s) == [tag |-> "str", val |-> s]
PyDict(d) == [tag |-> "dict", val |-> d]

NoExc == ""

\* Python's truth value of an object, as `if x:` takes it.
Truthy(v) ==
    CASE v.tag = "None" -> FALSE
      [] v.tag = "bool" -> v.val
      [] v.tag = "int" -> v.val # 0
      [] v.tag = "str" -> v.val # ""
      [] v.tag = "dict" -> DOMAIN v.val # {}

-----------------------------------------------------------------------------
(* What a run of a method leaves behind, and how statements compose.       *)

Skip == [calls |-> <<>>, logs |-> <<>>, out |-> <<>>, ret |-> PyNone, exc |-> NoExc]

Raise(e) == [Skip EXCEPT !.exc = e]

Return(v) == [Skip EXCEPT !.ret = v]

Log(level, msg) == [Skip EXCEPT !.logs = <<[level |-> level, msg |-> msg]>>]

PrintLine(s) == [Skip EXCEPT !.out = <<s>>]

\* a; b -- b runs only if a raised nothing, and the run's value is b's.
Then(a, b) ==
    IF a.exc # NoExc THEN a
    ELSE [calls |-> a.calls \o b.calls,
          logs  |-> a.logs \o b.logs,
          out   |-> a.out \o b.out,
          ret   |-> b.ret,
          exc   |-> b.exc]

\* An answer of the bus: a value, or a DBusException raised by the call.
Ok(v) == [ok |-> TRUE, val |-> v]
Fail == [ok |-> FALSE, val |-> PyNone]

\* A remote call m(arg) answered by r: it is made, then returns or raises.
Remote(m, arg, r) ==
    [Skip EXCEPT !.calls = <<[m |-> m, arg |-> arg]>>,
                 !.ret = r.val,
                 !.exc = IF r.ok THEN NoExc ELSE "DBusException"]

-----------------------------------------------------------------------------
(* Program constants.                                                      *)

MicrosPerSecond == 1000000
SecondsPerMinute == 60
ShortKeyLen == 7

-----------------------------------------------------------------------------
(* Discovery: SpotifyDBus.__init__.                                        *)

\* s holds sub at position i.
HasAt(s, sub, i) ==
    /\ i >= 1
    /\ i + Len(sub) - 1 <= Len(s)
    /\ SubSeq(s, i, i + Len(sub) - 1) = sub

\* re.match(r".*mpris.*spotify", name): anchored at the start, ".*" takes any
\* prefix, so "mpris" occurs somewhere and "spotify" starts at or after its end.
re_match(name) ==
    \E i \in 1..Len(name), j \in 1..Len(name) :
        /\ HasAt(name, "mpris", i)
        /\ j >= i + Len("mpris")
        /\ HasAt(name, "spotify", j)

RECURSIVE list_names_loop(_, _, _)
\* for name in bus.list_names(): if re.match(...): self.spotify_path = str(name)
list_names_loop(ns, i, path) ==
    IF i > Len(ns) THEN path
    ELSE list_names_loop(ns, i + 1, IF re_match(ns[i]) THEN ns[i] ELSE path)

\* The value of self.spotify_path after the loop; "None" is Python's None.
discover(ns) == list_names_loop(ns, 1, "None")

-----------------------------------------------------------------------------
(* The methods of SpotifyDBus.  `at` is the set of attributes __init__     *)
(* assigned; reading self.player or self.properties when it never was      *)
(* raises AttributeError.                                                  *)

AttrErrMsg(a) == "'SpotifyDBus' object has no attribute '" \o a \o "'"

is_running(path) == IF path = "None" THEN PyBool(FALSE) ELSE PyBool(TRUE)

\* get_property without its except clause: the AttributeError leaves it.
get_property_uncaught(at, key, r) ==
    Then(Log("debug", "Getting property: " \o key),
         IF "properties" \in at
         THEN Remote("Get", key, r)
         ELSE Raise("AttributeError"))

\* try: log.debug(..); return self.properties.Get(self.player_path, key)
\* except AttributeError as e: log.error(..)      -- and None falls out
get_property(at, key, r) ==
    Then(Log("debug", "Getting property: " \o key),
         IF "properties" \in at
         THEN Remote("Get", key, r)
         ELSE Then(Log("error", "Could not get property: " \o AttrErrMsg("properties")),
                   Return(PyNone)))

\* if self.properties: return self.properties.Set(self.player_path, key, value)
set_property(at, key, value, r) ==
    IF "properties" \notin at THEN Raise("AttributeError")
    ELSE Remote("Set", key, r)

\* A method with no return statement hands back None.
NoReturn(a) == IF a.exc # NoExc THEN a ELSE [a EXCEPT !.ret = PyNone]

toggle_pause(at, rPause, rPlay, rCall) ==
    IF "player" \notin at THEN Raise("AttributeError")
    ELSE LET can_pause == get_property(at, "CanPause", rPause)
             can_play == get_property(at, "CanPlay", rPlay)
         IN NoReturn(Then(can_pause, Then(can_play,
                IF Truthy(can_pause.ret) /\ Truthy(can_play.ret)
                THEN Remote("PlayPause", "", rCall)
                ELSE Log("warn", "Cannot Play/Pause"))))

\* The gate-then-act shape shared by play, next, prev and seek.
Gated(at, cap, rCap, m, arg, rCall, msg) ==
    IF "player" \notin at THEN Raise("AttributeError")
    ELSE LET can == get_property(at, cap, rCap)
         IN NoReturn(Then(can,
                IF Truthy(can.ret)
                THEN Remote(m, arg, rCall)
                ELSE Log("warn", msg)))

play(at, rCap, rCall) == Gated(at, "CanPlay", rCap, "Play", "", rCall, "Cannot Play")

\* stop behind a capability check, as its sibling methods are.
stop_gated(at, rCall) ==
    Gated(at, "CanPause", rCall, "Stop", "", rCall, "Cannot Stop")

stop(at, rCall) ==
    IF "player" \notin at THEN Raise("AttributeError")
    ELSE NoReturn(Remote("Stop", "", rCall))

\* stat = self.get_property("PlaybackStatus") -- read and dropped.
get_status(at, r) ==
    IF "player" \notin at THEN Raise("AttributeError")
    ELSE NoReturn(get_property(at, "PlaybackStatus", r))

next(at, rCap, rCall) ==
    Gated(at, "CanGoNext", rCap, "Next", "", rCall, "Cannot Go Next")

prev(at, rCap, rCall) ==
    Gated(at, "CanGoPrevious", rCap, "Previous", "", rCall, "Cannot Go Previous.")

seek(at, seconds, rCap, rCall) ==
    Gated(at, "CanSeek", rCap, "Seek", ToString(seconds), rCall, "Cannot Seek.")

\* The printable ASCII characters in code point order (the grave accent, which
\* a string of this notation cannot hold, is left out).
Ascii ==
    " !\"#$%&'()*+,-./0123456789:;<=>?@ABCDEFGHIJKLMNOPQRSTUVWXYZ[\\]^_abcdefghijklmnopqrstuvwxyz{|}~"

IsAscii(s) ==
    \A i \in 1..Len(s) : \E j \in 1..Len(Ascii) : SubSeq(s, i, i) = SubSeq(Ascii, j, j)

\* str(x) of a dbus.String, a unicode object under Python 2: it encodes with
\* the default codec, ascii, and raises on any other character.
str(s) ==
    IF IsAscii(s) THEN Return(PyStr(s)) ELSE Raise("UnicodeEncodeError")

\* metadata[key], a KeyError when the snapshot lacks the key.
Item(md, key, f(_)) ==
    IF key \in DOMAIN md THEN f(md[key]) ELSE Raise("KeyError")

get_song_length(at, r) ==
    LET metadata == get_property(at, "Metadata", r)
        conv(v) == Return(PyInt(v \div MicrosPerSecond))
    IN Then(metadata,
            IF Truthy(metadata.ret)
            THEN Item(metadata.ret.val, "mpris:length", conv)
            ELSE Return(PyNone))

get_song_title(at, r) ==
    LET metadata == get_property(at, "Metadata", r)
    IN Then(metadata,
            IF Truthy(metadata.ret)
            THEN Item(metadata.ret.val, "xesam:title", str)
            ELSE Return(PyNone))

get_song_artist(at, r) ==
    LET metadata == get_property(at, "Metadata", r)
        first(l) == IF Len(l) = 0 THEN Raise("IndexError") ELSE str(l[1])
    IN Then(metadata,
            IF Truthy(metadata.ret)
            THEN Item(metadata.ret.val, "xesam:artist", first)
            ELSE Return(PyNone))

-----------------------------------------------------------------------------
(* print_info, with the string handling it relies on.                      *)

\* str(x) as the print statement and str.format take it.
PyToStr(v) ==
    CASE v.tag = "None" -> "None"
      [] v.tag = "bool" -> IF v.val THEN "1" ELSE "0"
      [] v.tag = "int" -> ToString(v.val)
      [] v.tag = "str" -> v.val
      [] v.tag = "dict" -> "{...}"

\* ord(c), up to the offset of the table.
Ord(c) == CHOOSE i \in 1..Len(Ascii) : SubSeq(Ascii, i, i) = c

RECURSIVE StrLess(_, _)
\* a < b for Python strings: the first differing character decides.
StrLess(a, b) ==
    IF Len(a) = 0 THEN Len(b) > 0
    ELSE IF Len(b) = 0 THEN FALSE
    ELSE LET x == Ord(SubSeq(a, 1, 1))
             y == Ord(SubSeq(b, 1, 1))
         IN IF x # y THEN x < y
            ELSE StrLess(SubSeq(a, 2, Len(a)), SubSeq(b, 2, Len(b)))

RECURSIVE sorted(_)
\* list.sort() of a list of distinct keys.
sorted(S) ==
    IF S = {} THEN <<>>
    ELSE LET m == CHOOSE x \in S : \A y \in S \ {x} : StrLess(x, y)
         IN <<m>> \o sorted(S \ {m})

RECURSIVE Find(_, _, _)
\* The first position of character c in s from i on, 0 when there is none.
Find(s, c, i) ==
    IF i > Len(s) THEN 0
    ELSE IF SubSeq(s, i, i) = c THEN i
    ELSE Find(s, c, i + 1)

\* k.split(":")[1]: the text between the first colon and the next one.
SplitSecond(k) ==
    LET i == Find(k, ":", 1)
        j == Find(k, ":", i + 1)
    IN IF i = 0 THEN Raise("IndexError")
       ELSE Return(PyStr(SubSeq(k, i + 1, IF j = 0 THEN Len(k) ELSE j - 1)))

\* print k, pad, v -- the items of a print statement are joined by spaces.
Padded(k, v) ==
    PrintLine(k \o " " \o (IF Len(k) < ShortKeyLen THEN "\t\t= " ELSE "\t= ")
                \o " " \o v)

\* A metadata value as print shows it.
MdStr(k, v) == IF k = "mpris:length" THEN ToString(v) ELSE v

RECURSIVE i_keys_loop(_, _, _)
\* for i in i_keys: print i, pad, self.get_property(i)
i_keys_loop(at, keys, interfaces) ==
    IF keys = <<>> THEN Skip
    ELSE LET i == Head(keys)
             v == get_property(at, i, Ok(interfaces[i]))
         IN Then(v, Then(Padded(i, PyToStr(v.ret)),
                         i_keys_loop(at, Tail(keys), interfaces)))

RECURSIVE d_keys_loop(_, _)
\* for k in d_keys: d = k.split(":")[1]; print d, pad, metadata[k] (or its [0])
d_keys_loop(keys, metadata) ==
    IF keys = <<>> THEN Skip
    ELSE LET k == Head(keys)
             d == SplitSecond(k)
             line ==
                 IF d.ret.val = "artist"
                 THEN IF Len(metadata[k]) = 0 THEN Raise("IndexError")
                      ELSE PrintLine("artist \t\t=  " \o metadata[k][1])
                 ELSE Padded(d.ret.val, MdStr(k, metadata[k]))
         IN Then(d, Then(line, d_keys_loop(Tail(keys), metadata)))

print_info(at, rAll, rMeta) ==
    IF "properties" \notin at
    THEN Log("error", "Could not get properties: " \o AttrErrMsg("properties"))
    ELSE LET interfaces == Remote("GetAll", "", rAll)
             metadata == get_property(at, "Metadata", rMeta)
             props == interfaces.ret.val
         IN NoReturn(Then(interfaces, Then(metadata,
                IF "Metadata" \notin DOMAIN props THEN Raise("ValueError")
                ELSE Then(i_keys_loop(at, sorted(DOMAIN props \ {"Metadata"}), props),
                     Then(PrintLine(""),
                          d_keys_loop(sorted(DOMAIN metadata.ret.val),
                                      metadata.ret.val))))))

-----------------------------------------------------------------------------
(* The environment: what the bus holds and what it may answer.             *)

BusNames ==
    {"org.mpris.MediaPlayer2.spotify",
     "org.mpris.MediaPlayer2.spotifyd",
     "org.freedesktop.Notifications",
     "org.MPRIS.MediaPlayer2.Spotify",
     "com.spotify.mpris",
     "org.mprispotify"}

\* Bus names are unique: the lists of at most MaxNames distinct names.
NameLists ==
    UNION {{ns \in [1..n -> BusNames] : \A i, j \in 1..n : i # j => ns[i] # ns[j]}
           : n \in 0..MaxNames}

PropertyKeys ==
    {"PlaybackStatus", "CanPause", "CanPlay", "CanGoNext", "CanGoPrevious",
     "CanSeek", "Metadata"}

Snapshot(a, t, l) ==
    ("mpris:length" :> l) @@ ("xesam:title" :> t) @@ ("xesam:artist" :> a)

EmptyDict == [k \in {} |-> ""]

\* Snapshots of the Metadata property: complete ones, one with an empty
\* artist list, one with a title outside ASCII, one lacking keys, an empty one.
Metadatas ==
    {Snapshot(<<"Rush">>, "Tom Sawyer", 282000000),
     Snapshot(<<"Rush">>, "Tom Sawyer", 59999999),
     Snapshot(<<"Artist A", "Artist B">>, "Tom Sawyer", 185000000),
     Snapshot(<<"Rush">>, "Björk", 185000000),
     Snapshot(<<>>, "Tom Sawyer", 282000000),
     ("xesam:title" :> "Tom Sawyer"),
     EmptyDict}

CapResps == {Ok(PyBool(TRUE)), Ok(PyBool(FALSE)), Fail}
CallResps == {Ok(PyNone), Fail}
StatusResps == {Ok(PyStr("Playing")), Ok(PyStr("Paused")), Fail}
MetadataResps == {Ok(PyDict(m)) : m \in Metadatas} \cup {Fail}

Resps(key) ==
    CASE key = "Metadata" -> MetadataResps
      [] key = "PlaybackStatus" -> StatusResps
      [] OTHER -> CapResps

Interfaces ==
    ("CanGoNext" :> PyBool(TRUE)) @@ ("CanSeek" :> PyBool(FALSE))
    @@ ("PlaybackStatus" :> PyStr("Playing")) @@ ("Metadata" :> PyDict(EmptyDict))

GetAllResps ==
    {Ok(PyDict(Interfaces)),
     Ok(PyDict([k \in DOMAIN Interfaces \ {"Metadata"} |-> Interfaces[k]])),
     Fail}

SeekArgs == {0, 5}

-----------------------------------------------------------------------------
(* The wrapper used as a library: construct it, then call its methods.     *)

NoArgs == [cmd |-> "", sub |-> ""]

Init ==
    /\ names \in NameLists
    /\ spotify_path = "None"
    /\ proxy = "None"
    /\ attrs = {}
    /\ pc = "new"
    /\ args = NoArgs
    /\ op = [name |-> "", arg |-> ""]
    /\ inp = <<>>
    /\ calls = <<>>
    /\ logs = <<>>
    /\ out = <<>>
    /\ ret = PyNone
    /\ exc = NoExc
    /\ exit_code = -1

\* The answers the bus gave: one for each remote call the run came to make.
Answered(answers, r) ==
    SubSeq(answers, 1, IF Len(r.calls) < Len(answers) THEN Len(r.calls) ELSE Len(answers))

\* SpotifyDBus.__init__
Construct ==
    /\ pc = "new"
    /\ pc' = "ready"
    /\ spotify_path' = discover(names)
    /\ IF spotify_path' # "None"
       THEN /\ proxy' = "proxy"
            /\ attrs' = {"properties", "player"}
            /\ logs' = <<>>
       ELSE /\ proxy' = "None"
            /\ attrs' = {}
            /\ logs' = <<[level |-> "error", msg |-> "Is Spotify running?"]>>
    /\ op' = [name |-> "__init__", arg |-> ""]
    /\ UNCHANGED <<names, args, inp, calls, out, ret, exc, exit_code>>

\* A method call on the constructed object, answered by the bus with `answers`.
Method(name, arg, answers, r) ==
    /\ pc = "ready"
    /\ op' = [name |-> name, arg |-> arg]
    /\ inp' = Answered(answers, r)
    /\ calls' = r.calls
    /\ logs' = r.logs
    /\ out' = r.out
    /\ ret' = r.ret
    /\ exc' = r.exc
    /\ pc' = "returned"
    /\ UNCHANGED <<names, spotify_path, proxy, attrs, args, exit_code>>

\* The caller takes the outcome (catching what was raised) and goes on to
\* its next call on the same object.
Resume ==
    /\ pc = "returned"
    /\ pc' = "ready"
    /\ op' = [name |-> "", arg |-> ""]
    /\ inp' = <<>>
    /\ calls' = <<>>
    /\ logs' = <<>>
    /\ out' = <<>>
    /\ ret' = PyNone
    /\ exc' = NoExc
    /\ UNCHANGED <<names, spotify_path, proxy, attrs, args, exit_code>>

CallIsRunning ==
    Method("is_running", "", <<>>, Return(is_running(spotify_path)))

CallGetProperty ==
    \E key \in PropertyKeys : \E r \in Resps(key) :
        Method("get_property", key, <<r>>, get_property(attrs, key, r))

CallSetProperty ==
    \E r \in CallResps :
        Method("set_property", "Volume", <<r>>, set_property(attrs, "Volume", 1, r))

CallTogglePause ==
    \E a \in CapResps, b \in CapResps, c \in CallResps :
        Method("toggle_pause", "", <<a, b, c>>, toggle_pause(attrs, a, b, c))

CallPlay ==
    \E a \in CapResps, c \in CallResps :
        Method("play", "", <<a, c>>, play(attrs, a, c))

CallStop ==
    \E c \in CallResps : Method("stop", "", <<c>>, stop(attrs, c))

CallGetStatus ==
    \E r \in StatusResps : Method("get_status", "", <<r>>, get_status(attrs, r))

CallNext ==
    \E a \in CapResps, c \in CallResps :
        Method("next", "", <<a, c>>, next(attrs, a, c))

CallPrev ==
    \E a \in CapResps, c \in CallResps :
        Method("prev", "", <<a, c>>, prev(attrs, a, c))

CallSeek ==
    \E s \in SeekArgs, a \in CapResps, c \in CallResps :
        Method("seek", ToString(s), <<a, c>>, seek(attrs, s, a, c))

CallGetSongLength ==
    \E r \in MetadataResps :
        Method("get_song_length", "", <<r>>, get_song_length(attrs, r))

CallGetSongTitle ==
    \E r \in MetadataResps :
        Method("get_song_title", "", <<r>>, get_song_title(attrs, r))

CallGetSongArtist ==
    \E r \in MetadataResps :
        Method("get_song_artist", "", <<r>>, get_song_artist(attrs, r))

CallPrintInfo ==
    \E a \in GetAllResps, r \in MetadataResps :
        Method("print_info", "", <<a, r>>, print_info(attrs, a, r))

Next ==
    \/ Construct
    \/ CallIsRunning
    \/ CallGetProperty
    \/ CallSetProperty
    \/ CallTogglePause
    \/ CallPlay
    \/ CallStop
    \/ CallGetStatus
    \/ CallNext
    \/ CallPrev
    \/ CallSeek
    \/ CallGetSongLength
    \/ CallGetSongTitle
    \/ CallGetSongArtist
    \/ CallPrintInfo
    \/ Resume

Spec == Init /\ [][Next]_vars

-----------------------------------------------------------------------------
(* The script: parse the arguments, construct the wrapper, run the one     *)
(* command, then the call on its last line.                                *)

Commands ==
    {[cmd |-> c, sub |-> ""] : c \in {"toggle", "next", "prev", "play", "stop", "get"}}
    \cup {[cmd |-> "get", sub |-> g] : g \in {"title", "artist", "length", "all"}}

\* print spotify.get_song_title()  /  print spotify.get_song_artist()
print_value(r) == Then(r, NoReturn(PrintLine(PyToStr(r.ret))))

\* divmod(x, 60) of what get_song_length returned: None has no divmod.
divmod(v) ==
    IF v.tag = "int"
    THEN Return(PyInt(v.val))
    ELSE Raise("TypeError")

\* The else branch of `get`: the length is read twice, the quotient and the
\* remainder come from the second reading.
get_length_or_line(at, sub, r1, r2, r3, r4) ==
    LET length == get_song_length(at, r1)
        again == get_song_length(at, r2)
        m == again.ret.val \div SecondsPerMinute
        s == again.ret.val % SecondsPerMinute
        artist == get_song_artist(at, r3)
        title == get_song_title(at, r4)
    IN NoReturn(Then(length, Then(again, Then(divmod(again.ret),
          IF sub = "length"
          THEN PrintLine(ToString(m) \o "m" \o ToString(s) \o "s ("
                         \o PyToStr(length.ret) \o ")")
          ELSE Then(artist, Then(title,
                 PrintLine(PyToStr(artist.ret) \o " - " \o PyToStr(title.ret)
                           \o " (" \o ToString(m) \o "m" \o ToString(s) \o "s)")))))))

\* spotify.status(): SpotifyDBus defines no such method.
status == Raise("AttributeError")

\* The interpreter's exit status: 1 when an exception reached the top level.
ExitStatus(e) == IF e = NoExc THEN 0 ELSE 1

MainInit ==
    /\ names \in NameLists
    /\ spotify_path = "None"
    /\ proxy = "None"
    /\ attrs = {}
    /\ pc = "new"
    /\ args \in Commands
    /\ op = [name |-> "", arg |-> ""]
    /\ inp = <<>>
    /\ calls = <<>>
    /\ logs = <<>>
    /\ out = <<>>
    /\ ret = PyNone
    /\ exc = NoExc
    /\ exit_code = -1

\* The if/elif chain has run command r with the bus answering `answers`; an
\* exception that leaves it ends the process.
Dispatched(answers, r) ==
    /\ pc = "ready"
    /\ op' = [name |-> args.cmd, arg |-> args.sub]
    /\ inp' = Answered(answers, r)
    /\ calls' = calls \o r.calls
    /\ logs' = logs \o r.logs
    /\ out' = out \o r.out
    /\ ret' = r.ret
    /\ exc' = r.exc
    /\ IF r.exc = NoExc
       THEN pc' = "dispatched" /\ exit_code' = exit_code
       ELSE pc' = "exited" /\ exit_code' = ExitStatus(r.exc)
    /\ UNCHANGED <<names, spotify_path, proxy, attrs, args>>

DispatchToggle ==
    /\ args.cmd = "toggle"
    /\ \E a \in CapResps, b \in CapResps, c \in CallResps :
          Dispatched(<<a, b, c>>, toggle_pause(attrs, a, b, c))

DispatchNext ==
    /\ args.cmd = "next"
    /\ \E a \in CapResps, c \in CallResps : Dispatched(<<a, c>>, next(attrs, a, c))

DispatchPrev ==
    /\ args.cmd = "prev"
    /\ \E a \in CapResps, c \in CallResps : Dispatched(<<a, c>>, prev(attrs, a, c))

DispatchPlay ==
    /\ args.cmd = "play"
    /\ \E a \in CapResps, c \in CallResps : Dispatched(<<a, c>>, play(attrs, a, c))

DispatchStop ==
    /\ args.cmd = "stop"
    /\ \E c \in CallResps : Dispatched(<<c>>, stop(attrs, c))

DispatchGetTitle ==
    /\ args.cmd = "get" /\ args.sub = "title"
    /\ \E r \in MetadataResps :
          Dispatched(<<r>>, print_value(get_song_title(attrs, r)))

DispatchGetArtist ==
    /\ args.cmd = "get" /\ args.sub = "artist"
    /\ \E r \in MetadataResps :
          Dispatched(<<r>>, print_value(get_song_artist(attrs, r)))

DispatchGetAll ==
    /\ args.cmd = "get" /\ args.sub = "all"
    /\ \E a \in GetAllResps, r \in MetadataResps :
          Dispatched(<<a, r>>, print_info(attrs, a, r))

\* The four readings of Metadata see one snapshot, or the track changes once
\* in between: the first k readings are answered r, the later ones q.
DispatchGetLengthOrLine ==
    /\ args.cmd = "get" /\ args.sub \in {"length", ""}
    /\ \E r \in MetadataResps, q \in MetadataResps, k \in 0..4 :
          LET a == [i \in 1..4 |-> IF i <= k THEN r ELSE q]
          IN Dispatched(a, get_length_or_line(attrs, args.sub, a[1], a[2], a[3], a[4]))

\* The last line of the script.
Status ==
    /\ pc = "dispatched"
    /\ pc' = "exited"
    /\ op' = [name |-> "status", arg |-> ""]
    /\ exc' = status.exc
    /\ exit_code' = ExitStatus(status.exc)
    /\ UNCHANGED <<names, spotify_path, proxy, attrs, args, inp, calls, logs,
                   out, ret>>

MainNext ==
    \/ Construct
    \/ DispatchToggle
    \/ DispatchNext
    \/ DispatchPrev
    \/ DispatchPlay
    \/ DispatchStop
    \/ DispatchGetTitle
    \/ DispatchGetArtist
    \/ DispatchGetAll
    \/ DispatchGetLengthOrLine
    \/ Status

MainSpec == MainInit /\ [][MainNext]_vars

-----------------------------------------------------------------------------
(* Vocabulary of the properties.                                           *)

Discovered == spotify_path # "None"

\* A method of the wrapper has run and returned or raised.
Returned == pc = "returned"

\* The remote method invocations among the remote calls cs: all but the
\* property reads and writes.
MethodCalls(cs) == SelectSeq(cs, LAMBDA c : c.m \notin {"Get", "GetAll", "Set"})

Warned == \E i \in DOMAIN logs : logs[i].level = "warn"

ReadTrue(i) == i \in DOMAIN inp /\ inp[i] = Ok(PyBool(TRUE))

Mutators == {"toggle_pause", "play", "stop", "next", "prev", "seek"}

Readers == {"get_property", "get_song_length", "get_song_title", "get_song_artist"}

CapabilityOf(name) ==
    CASE name = "next" -> "CanGoNext"
      [] name = "prev" -> "CanGoPrevious"
      [] name = "play" -> "CanPlay"
      [] name = "seek" -> "CanSeek"

RemoteMethodOf(name) ==
    CASE name = "next" -> "Next"
      [] name = "prev" -> "Previous"
      [] name = "play" -> "Play"
      [] name = "seek" -> "Seek"

\* The earliest name of ns, in bus order, that the pattern matches.
FirstMatch(ns) ==
    IF \E i \in DOMAIN ns : re_match(ns[i])
    THEN ns[CHOOSE i \in DOMAIN ns :
                /\ re_match(ns[i])
                /\ \A j \in DOMAIN ns : re_match(ns[j]) => i <= j]
    ELSE "None"

\* The one snapshot every reading of Metadata was answered with, when the
\* run read it at least once and the bus never failed or changed track.
OneSnapshot ==
    /\ Len(inp) >= 1
    /\ \A i \in DOMAIN inp : inp[i].ok /\ inp[i] = inp[1]

Complete(md) ==
    /\ {"mpris:length", "xesam:title", "xesam:artist"} \subseteq DOMAIN md
    /\ Len(md["xesam:artist"]) > 0

\* "A - T (MmSs)" for the snapshot md.
Line(md) ==
    LET secs == md["mpris:length"] \div MicrosPerSecond
    IN md["xesam:artist"][1] \o " - " \o md["xesam:title"] \o " ("
       \o ToString(secs \div SecondsPerMinute) \o "m"
       \o ToString(secs % SecondsPerMinute) \o "s)"

-----------------------------------------------------------------------------
(* The claims.                                                             *)

\* C1: with no player discovered, a mutator (toggle, play, stop, next, prev,
\* seek) makes no remote method call and returns without raising.
C1_NoPlayerMutatorIsNoop ==
    (Returned /\ ~Discovered /\ op.name \in Mutators)
        => (MethodCalls(calls) = <<>> /\ exc = NoExc)

\* C2: with a player, toggle invokes PlayPause exactly once iff CanPause and
\* CanPlay both read true; for any other answers (false or absent) it makes
\* no remote method call and logs a warning.
C2_ToggleIffBothCapabilities ==
    (Returned /\ Discovered /\ op.name = "toggle_pause")
        => IF ReadTrue(1) /\ ReadTrue(2)
           THEN MethodCalls(calls) = <<[m |-> "PlayPause", arg |-> ""]>>
           ELSE MethodCalls(calls) = <<>> /\ Warned

\* C2, where both capabilities are present and read as booleans: the part of
\* the claim the code keeps.
C2_ToggleOnPresentCapabilities ==
    (Returned /\ Discovered /\ op.name = "toggle_pause"
        /\ Len(inp) >= 2 /\ inp[1].ok /\ inp[2].ok)
        => IF ReadTrue(1) /\ ReadTrue(2)
           THEN MethodCalls(calls) = <<[m |-> "PlayPause", arg |-> ""]>>
           ELSE MethodCalls(calls) = <<>> /\ Warned

\* C3: with a player, next, prev, play and seek first read their capability,
\* and invoke their remote method exactly once, after that read, only when it
\* returned true; when the capability is false or absent they make no remote
\* method call and log a warning.
C3_GateThenAct ==
    (Returned /\ Discovered /\ op.name \in {"next", "prev", "play", "seek"})
        => /\ calls # <<>>
           /\ calls[1] = [m |-> "Get", arg |-> CapabilityOf(op.name)]
           /\ IF ReadTrue(1)
              THEN Tail(calls) = <<[m |-> RemoteMethodOf(op.name), arg |-> op.arg]>>
              ELSE MethodCalls(calls) = <<>> /\ Warned

\* C3, where the capability is present and reads as a boolean.
C3_GateThenActOnPresentCapability ==
    (Returned /\ Discovered /\ op.name \in {"next", "prev", "play", "seek"}
        /\ Len(inp) >= 1 /\ inp[1].ok)
        => /\ calls[1] = [m |-> "Get", arg |-> CapabilityOf(op.name)]
           /\ IF ReadTrue(1)
              THEN Tail(calls) = <<[m |-> RemoteMethodOf(op.name), arg |-> op.arg]>>
              ELSE Tail(calls) = <<>> /\ Warned

\* C4: after discovery the handle is the earliest name, in bus order, that
\* holds "mpris" followed later by "spotify", and None when no name does.
C4_HandleIsFirstMatch ==
    pc # "new" => spotify_path = FirstMatch(names)

\* C4, as far as the code keeps it: the handle is None exactly when no name
\* matches, and otherwise a matching name of the bus.
C4_HandleIsSomeMatch ==
    pc # "new" =>
        IF \E i \in DOMAIN names : re_match(names[i])
        THEN \E i \in DOMAIN names : re_match(names[i]) /\ spotify_path = names[i]
        ELSE spotify_path = "None"

\* C5: get_song_artist returns the first element of a non-empty xesam:artist
\* list, and on an empty list returns None without an exception.
C5_ArtistFirstOrNone ==
    (Returned /\ Discovered /\ op.name = "get_song_artist"
        /\ Len(inp) >= 1 /\ inp[1].ok /\ "xesam:artist" \in DOMAIN inp[1].val.val)
        => LET artists == inp[1].val.val["xesam:artist"]
           IN /\ exc = NoExc
              /\ ret = IF Len(artists) > 0 THEN PyStr(artists[1]) ELSE PyNone

\* C6: with no player discovered, get_property(K) returns None for every key
\* K, raises nothing and makes no remote call.
C6_GetPropertyWithoutPlayer ==
    (Returned /\ ~Discovered /\ op.name = "get_property")
        => (ret = PyNone /\ exc = NoExc /\ calls = <<>>)

C6_Witness ==
    /\ Returned /\ ~Discovered
    /\ op = [name |-> "get_property", arg |-> "CanGoNext"]
    /\ ret = PyNone /\ exc = NoExc
    /\ \E i \in DOMAIN logs : logs[i].level = "error"

\* C7: with a player, when a remote call of the operation fails, the
\* operation raises nothing, and a read returns None.
C7_RemoteFailureNeverRaises ==
    (Returned /\ Discovered /\ \E i \in DOMAIN inp : ~inp[i].ok)
        => (exc = NoExc /\ (op.name \in Readers => ret = PyNone))

\* C8: every run of the script, for every command and every player
\* situation, ends with exit status 0.
C8_RunExitsZero ==
    pc = "exited" => exit_code = 0

\* C9: the bare get command, for a player whose metadata (unchanged during
\* the command) has first artist A, title T and length L microseconds, prints
\* exactly the one line "A - T (MmSs)", M and S being the quotient and the
\* remainder by 60 of L integer-divided by 1,000,000.
C9_BareGetPrintsLine ==
    (op = [name |-> "get", arg |-> ""] /\ Discovered
        /\ OneSnapshot /\ Complete(inp[1].val.val))
        => out = <<Line(inp[1].val.val)>>

\* C9, for an artist and a title made of ASCII characters only.
C9_BareGetPrintsAsciiLine ==
    (op = [name |-> "get", arg |-> ""] /\ Discovered
        /\ OneSnapshot /\ Complete(inp[1].val.val)
        /\ IsAscii(inp[1].val.val["xesam:artist"][1])
        /\ IsAscii(inp[1].val.val["xesam:title"]))
        => out = <<Line(inp[1].val.val)>>

C9_RushWitness ==
    /\ op = [name |-> "get", arg |-> ""]
    /\ Len(inp) = 4
    /\ out = <<"Rush - Tom Sawyer (4m42s)">>

\* C10: with a player, stop invokes the remote Stop method exactly once,
\* whatever the capabilities are, and reads no property before it.
C10_StopIsUngated ==
    (Returned /\ Discovered /\ op.name = "stop")
        => calls = <<[m |-> "Stop", arg |-> ""]>>

C10_Witness ==
    /\ Returned /\ Discovered /\ op.name = "stop"
    /\ calls = <<[m |-> "Stop", arg |-> ""]>>
    /\ exc = NoExc /\ ret = PyNone

====
